---- MODULE Spec2Model ----
(***************************************************************************)
(* Personal Finance Tracker (src/main.py): the FinanceTracker registry,    *)
(* its Users with their transactions, budgets, savings goals and category  *)
(* lists, the JSON snapshot (finance_data.json), the audit log             *)
(* (transaction_log.txt) and the interactive handlers of main().           *)
(*                                                                         *)
(* Console input is a string; float() and int() are modelled by tables     *)
(* over the input strings the specifications draw from.  Amounts are       *)
(* whole numbers or NaN, and the comparison  spent >= limit * 0.8  is      *)
(* computed exactly as  5 * spent >= 4 * limit.                            *)
(* The snapshot write of save_data is taken to succeed.                    *)
(***************************************************************************)
EXTENDS Integers, Sequences, FiniteSets, TLC

VARIABLES
    users,         \* FinanceTracker.users: insertion-ordered dict, a sequence of [key, user]
    current_user,  \* FinanceTracker.current_user: None, or the key of the User object it refers to
    store,         \* finance_data.json
    log,           \* transaction_log.txt: the lines appended so far
    pc,            \* position of main(): "init", "menu", "exited", "crashed"
    last           \* the handler that ran last, how it ended, the id it deleted

vars == <<users, current_user, store, log, pc, last>>

None == "None"

----------------------------------------------------------------------------
(* Bounds of the model *)

MaxTx == 2        \* transactions one user holds
MaxBudgets == 2   \* budgets one user holds
MaxGoals == 2     \* savings goals one user holds
MaxLog == 3       \* lines of the audit log
MaxFunds == 4     \* current_amount of a savings goal

----------------------------------------------------------------------------
(* Python built-ins on the console strings *)

Range(s) == {s[i] : i \in 1..Len(s)}

\* float(s): the strings that parse, with their values; any other raises
\* ValueError.  float("nan") is the IEEE 754 not-a-number, written here as a
\* number no sum of amounts reaches and handled only by the float_ operators.
FloatTable ==
    ("-4" :> -4) @@ ("0" :> 0) @@ ("2" :> 2) @@ ("4" :> 4) @@ ("5" :> 5) @@ ("1" :> 1) @@ ("3" :> 3)
    @@ ("nan" :> -999)

float_ok(s) == s \in DOMAIN FloatTable
float(s) == FloatTable[s]

NaN == FloatTable["nan"]

\* x + y, x - y, x <= y, x >= y, x > y on floats: NaN makes every sum NaN and
\* every comparison false
float_add(x, y) == IF x = NaN \/ y = NaN THEN NaN ELSE x + y
float_sub(x, y) == IF x = NaN \/ y = NaN THEN NaN ELSE x - y
float_le(x, y) == x # NaN /\ y # NaN /\ x <= y
float_ge(x, y) == x # NaN /\ y # NaN /\ x >= y
float_gt(x, y) == x # NaN /\ y # NaN /\ x > y
\* x >= y * 0.8
float_ge_80(x, y) == x # NaN /\ y # NaN /\ 5 * x >= 4 * y

\* int(s): the strings that parse, with their values; any other raises ValueError
IntTable == ("1" :> 1) @@ ("2" :> 2) @@ ("3" :> 3) @@ ("4" :> 4) @@ ("5" :> 5) @@ ("0" :> 0)

int_ok(s) == s \in DOMAIN IntTable
int(s) == IntTable[s]

\* str.lower() on the answers the prompts read
lower(s) ==
    CASE s = "Y" -> "y"
      [] s = "N" -> "n"
      [] s = "Weekly" -> "weekly"
      [] OTHER -> s

\* datetime.datetime.now().strftime("%Y-%m-%d")
Today == "2024-01-05"

RECURSIVE SumSeq(_)
SumSeq(s) == IF s = <<>> THEN 0 ELSE float_add(Head(s), SumSeq(Tail(s)))

\* del s[i] (i counted from 1 here)
DelAt(s, i) == SubSeq(s, 1, i - 1) \o SubSeq(s, i + 1, Len(s))

\* "for i, x in enumerate(s): if test(x): ... break": the position of the first
\* TRUE in the sequence of test results, 0 when the loop ends without a match
FirstMatch(tests) ==
    IF \E i \in 1..Len(tests) : tests[i]
    THEN CHOOSE i \in 1..Len(tests) : tests[i] /\ \A j \in 1..(i - 1) : ~tests[j]
    ELSE 0

----------------------------------------------------------------------------
(* Transaction, SavingsGoal, Budget *)

DefaultCategories ==
    <<"Groceries", "Bills", "Entertainment", "Transportation", "Housing", "Other">>

\* Transaction.__init__ : amount is float(amount); a non-numeric string raises
Transaction(transaction_id, date, amount, category, transaction_type, description) ==
    [transaction_id |-> transaction_id, date |-> date, amount |-> amount,
     category |-> category, type |-> transaction_type, description |-> description]

Transaction_to_dict(t) ==
    [id |-> t.transaction_id, date |-> t.date, amount |-> t.amount,
     category |-> t.category, type |-> t.type, description |-> t.description]

\* KeyError when a required key is missing
Transaction_from_dict_ok(data) ==
    {"id", "date", "amount", "category", "type"} \subseteq DOMAIN data

Transaction_from_dict(data) ==
    Transaction(data.id, data.date, data.amount, data.category, data.type,
                IF "description" \in DOMAIN data THEN data.description ELSE "")

SavingsGoal(goal_id, name, target_amount, current_amount) ==
    [goal_id |-> goal_id, name |-> name, target_amount |-> target_amount,
     current_amount |-> current_amount]

SavingsGoal_add_funds(g, amount) ==
    [g EXCEPT !.current_amount = float_add(g.current_amount, amount)]

SavingsGoal_to_dict(g) ==
    [id |-> g.goal_id, name |-> g.name, target_amount |-> g.target_amount,
     current_amount |-> g.current_amount]

SavingsGoal_from_dict_ok(data) == {"id", "name", "target_amount"} \subseteq DOMAIN data

SavingsGoal_from_dict(data) ==
    SavingsGoal(data.id, data.name, data.target_amount,
                IF "current_amount" \in DOMAIN data THEN data.current_amount ELSE 0)

Budget(budget_id, category, limit, period) ==
    [budget_id |-> budget_id, category |-> category, limit |-> limit, period |-> period]

Budget_to_dict(b) ==
    [id |-> b.budget_id, category |-> b.category, limit |-> b.limit, period |-> b.period]

Budget_from_dict_ok(data) == {"id", "category", "limit"} \subseteq DOMAIN data

Budget_from_dict(data) ==
    Budget(data.id, data.category, data.limit,
           IF "period" \in DOMAIN data THEN data.period ELSE "monthly")

----------------------------------------------------------------------------
(* User *)

\* User.__init__
User(username, password, transactions, savings_goals, budgets) ==
    [username |-> username, password |-> password, transactions |-> transactions,
     savings_goals |-> savings_goals, budgets |-> budgets,
     categories |-> DefaultCategories]

authenticate(user, password) == user.password = password

IsIncome(t) == t.type = "income"
IsExpense(t) == t.type = "expense"

Amounts(ts) == [i \in 1..Len(ts) |-> ts[i].amount]

get_total_income(user) == SumSeq(Amounts(SelectSeq(user.transactions, IsIncome)))

get_total_expenses(user) == SumSeq(Amounts(SelectSeq(user.transactions, IsExpense)))

\* get_balance with the second sum taken over every transaction instead of
\* the expense-type ones
get_balance_unfiltered_expenses(user) ==
    LET total_income == SumSeq(Amounts(SelectSeq(user.transactions, IsIncome)))
        total_expenses == SumSeq(Amounts(user.transactions))
    IN float_sub(total_income, total_expenses)

get_balance(user) ==
    LET total_income == SumSeq(Amounts(SelectSeq(user.transactions, IsIncome)))
        total_expenses == SumSeq(Amounts(SelectSeq(user.transactions, IsExpense)))
    IN float_sub(total_income, total_expenses)

\* the dict of get_expenses_by_category: its keys, and the sum under a key
RECURSIVE expenses_loop(_, _)
expenses_loop(ts, acc) ==
    IF ts = <<>> THEN acc
    ELSE LET t == Head(ts)
             acc1 == IF t.type = "expense"
                     THEN LET acc0 == IF t.category \notin DOMAIN acc
                                      THEN acc @@ (t.category :> 0) ELSE acc
                          IN [acc0 EXCEPT ![t.category] = float_add(acc0[t.category], t.amount)]
                     ELSE acc
         IN expenses_loop(Tail(ts), acc1)

get_expenses_by_category(user) == expenses_loop(user.transactions, <<>>)

\* budget_message with > for the "exceeded" test: spending equal to the limit
\* only warns
budget_message_strict(budget, expenses_by_category) ==
    IF budget.category \in DOMAIN expenses_by_category
    THEN LET current_spending == expenses_by_category[budget.category]
         IN IF float_gt(current_spending, budget.limit)
            THEN <<[kind |-> "exceeded", category |-> budget.category,
                    limit |-> budget.limit, spending |-> current_spending]>>
            ELSE IF float_ge_80(current_spending, budget.limit)
                 THEN <<[kind |-> "warning", category |-> budget.category,
                         limit |-> budget.limit, spending |-> current_spending]>>
                 ELSE <<>>
    ELSE <<>>

\* the body of the loop of check_budget_notifications: the message of one
\* budget, [kind, category, limit, spending], or none
budget_message(budget, expenses_by_category) ==
    IF budget.category \in DOMAIN expenses_by_category
    THEN LET current_spending == expenses_by_category[budget.category]
         IN IF float_ge(current_spending, budget.limit)
            THEN <<[kind |-> "exceeded", category |-> budget.category,
                    limit |-> budget.limit, spending |-> current_spending]>>
            ELSE IF float_ge_80(current_spending, budget.limit)
                 THEN <<[kind |-> "warning", category |-> budget.category,
                         limit |-> budget.limit, spending |-> current_spending]>>
                 ELSE <<>>
    ELSE <<>>

RECURSIVE notifications_loop(_, _)
notifications_loop(budgets, expenses_by_category) ==
    IF budgets = <<>> THEN <<>>
    ELSE budget_message(Head(budgets), expenses_by_category)
         \o notifications_loop(Tail(budgets), expenses_by_category)

check_budget_notifications(user) ==
    notifications_loop(user.budgets, get_expenses_by_category(user))

\* the positional arguments of a call, args[i] counted from 0 as in the source
arg(args, i) == args[i + 1]

\* validate_amount's wrapper: TRUE when it goes on to call the wrapped function,
\* FALSE when it prints an error and returns None.  The call is positional, so
\* kwargs.get('amount') is None and the value tested is args[1].
validate_amount(args) ==
    LET amount == arg(args, 1)
    IN IF float_ok(amount) THEN ~float_le(float(amount), 0) ELSE FALSE

\* log_transaction's wrapper: the line written for a call that returned a result
log_transaction(args) ==
    [name |-> "add_transaction", a1 |-> arg(args, 1), a2 |-> arg(args, 2), a3 |-> arg(args, 3)]

\* add_transaction numbering from the largest id in use instead of the count
add_transaction_body_next_free(user, date, amount, category, transaction_type, description) ==
    LET ids == {user.transactions[k].transaction_id : k \in 1..Len(user.transactions)}
        transaction_id == IF ids = {} THEN 1
                          ELSE (CHOOSE m \in ids : \A n \in ids : n <= m) + 1
        transaction == Transaction(transaction_id, date, float(amount), category,
                                   transaction_type, description)
    IN [user EXCEPT !.transactions = Append(@, transaction)]

\* the undecorated body of User.add_transaction; Transaction.__init__ raises
\* ValueError when float(amount) does
add_transaction_body(user, date, amount, category, transaction_type, description) ==
    LET transaction_id == Len(user.transactions) + 1
        transaction == Transaction(transaction_id, date, float(amount), category,
                                   transaction_type, description)
    IN [user EXCEPT !.transactions = Append(@, transaction)]

\* User.add_transaction as decorated:
\*   ret "None"  - the validator returned None,
\*   ret "raise" - ValueError left the call,
\*   ret "ok"    - the new transaction is the last of user.transactions
add_transaction(user, date, amount, category, transaction_type, description) ==
    LET args == <<"self", date, amount, category, transaction_type, description>>
    IN IF ~validate_amount(args)
       THEN [ret |-> "None", user |-> user, lines |-> <<>>]
       ELSE IF ~float_ok(amount)
            THEN [ret |-> "raise", user |-> user, lines |-> <<>>]
            ELSE [ret |-> "ok",
                  user |-> add_transaction_body(user, date, amount, category,
                                                transaction_type, description),
                  lines |-> <<log_transaction(args)>>]

add_savings_goal(user, name, target_amount) ==
    LET goal_id == Len(user.savings_goals) + 1
    IN [user EXCEPT !.savings_goals = Append(@, SavingsGoal(goal_id, name, target_amount, 0))]

add_budget(user, category, limit, period) ==
    LET budget_id == Len(user.budgets) + 1
    IN [user EXCEPT !.budgets = Append(@, Budget(budget_id, category, limit, period))]

User_to_dict(user) ==
    [username |-> user.username,
     password |-> user.password,
     transactions |-> [i \in 1..Len(user.transactions) |->
                          Transaction_to_dict(user.transactions[i])],
     savings_goals |-> [i \in 1..Len(user.savings_goals) |->
                           SavingsGoal_to_dict(user.savings_goals[i])],
     budgets |-> [i \in 1..Len(user.budgets) |-> Budget_to_dict(user.budgets[i])],
     categories |-> user.categories]

\* data.get(key, [])
get_list(data, key) == IF key \in DOMAIN data THEN data[key] ELSE <<>>

\* KeyError when a required key is missing, here or in a nested record
User_from_dict_ok(data) ==
    /\ \A i \in 1..Len(get_list(data, "transactions")) :
           Transaction_from_dict_ok(get_list(data, "transactions")[i])
    /\ \A i \in 1..Len(get_list(data, "savings_goals")) :
           SavingsGoal_from_dict_ok(get_list(data, "savings_goals")[i])
    /\ \A i \in 1..Len(get_list(data, "budgets")) :
           Budget_from_dict_ok(get_list(data, "budgets")[i])
    /\ {"username", "password"} \subseteq DOMAIN data

\* from_dict without the "if 'categories' in data" assignment: the user keeps
\* the default categories of the constructor
User_from_dict_default_categories(data) ==
    LET ts == get_list(data, "transactions")
        gs == get_list(data, "savings_goals")
        bs == get_list(data, "budgets")
        transactions == [i \in 1..Len(ts) |-> Transaction_from_dict(ts[i])]
        savings_goals == [i \in 1..Len(gs) |-> SavingsGoal_from_dict(gs[i])]
        budgets == [i \in 1..Len(bs) |-> Budget_from_dict(bs[i])]
    IN User(data.username, data.password, transactions, savings_goals, budgets)

User_from_dict(data) ==
    LET ts == get_list(data, "transactions")
        gs == get_list(data, "savings_goals")
        bs == get_list(data, "budgets")
        transactions == [i \in 1..Len(ts) |-> Transaction_from_dict(ts[i])]
        savings_goals == [i \in 1..Len(gs) |-> SavingsGoal_from_dict(gs[i])]
        budgets == [i \in 1..Len(bs) |-> Budget_from_dict(bs[i])]
        user == User(data.username, data.password, transactions, savings_goals, budgets)
    IN IF "categories" \in DOMAIN data
       THEN [user EXCEPT !.categories = data.categories]
       ELSE user

----------------------------------------------------------------------------
(* FinanceTracker: the users dict, the snapshot *)

Keys(us) == {us[i].key : i \in 1..Len(us)}

KeyIdx(us, k) == FirstMatch([i \in 1..Len(us) |-> us[i].key = k])

\* us[k]
dict_get(us, k) == us[KeyIdx(us, k)].user

\* us[k] = u : a new key goes last, a present key keeps its place
dict_set(us, k, u) ==
    IF k \in Keys(us)
    THEN [us EXCEPT ![KeyIdx(us, k)] = [key |-> k, user |-> u]]
    ELSE Append(us, [key |-> k, user |-> u])

StoreAbsent == [state |-> "absent", doc |-> <<>>]
StoreUnparsable == [state |-> "unparsable", doc |-> <<>>]
StoreJson(doc) == [state |-> "json", doc |-> doc]

\* the loop of load_data over data.items(): it stops at the first record that
\* raises, and the users assigned before it stay
RECURSIVE load_items(_, _)
load_items(items, acc) ==
    IF items = <<>> THEN [users |-> acc, error |-> FALSE]
    ELSE IF ~User_from_dict_ok(Head(items).data)
         THEN [users |-> acc, error |-> TRUE]
         ELSE load_items(Tail(items),
                         dict_set(acc, Head(items).key, User_from_dict(Head(items).data)))

\* FinanceTracker.load_data: the users afterwards, and whether "Error loading data" was printed
load_data(st, us) ==
    CASE st.state = "absent" -> [users |-> us, error |-> FALSE]
      [] st.state = "unparsable" -> [users |-> us, error |-> TRUE]
      [] OTHER -> load_items(st.doc, us)

\* FinanceTracker.save_data: the document written
save_data(us) ==
    StoreJson([i \in 1..Len(us) |-> [key |-> us[i].key, data |-> User_to_dict(us[i].user)]])

----------------------------------------------------------------------------
(* main(): construction, the logged-out menu, logout and exit *)

is_logged_in == current_user # None

\* finance_tracker.current_user, the User object the handlers work on
cur == dict_get(users, current_user)

\* the users dict after the handler changed the current user's object to u
set_cur(u) == dict_set(users, current_user, u)

\* what the handler printed last: "ok", "error", ..., and the id a delete removed
EndedWith(op, ret, id) == last' = [op |-> op, ret |-> ret, id |-> id]

Ended(op, ret) == EndedWith(op, ret, 0)

\* FinanceTracker.__init__ after users = {} and current_user = None: load_data()
FinanceTracker_init ==
    /\ pc = "init"
    /\ LET r == load_data(store, users)
       IN /\ users' = r.users
          /\ Ended("load_data", IF r.error THEN "error" ELSE "ok")
    /\ pc' = "menu"
    /\ UNCHANGED <<current_user, store, log>>

\* register_user without the "username in self.users" test: a second
\* registration replaces the first
register_user_overwrites(username, password) ==
    /\ pc = "menu"
    /\ ~is_logged_in
    /\ users' = dict_set(users, username, User(username, password, <<>>, <<>>, <<>>))
    /\ store' = save_data(users')
    /\ Ended("register_user", "True")
    /\ UNCHANGED <<current_user, log, pc>>

\* FinanceTracker.register_user
register_user(username, password) ==
    /\ pc = "menu"
    /\ ~is_logged_in
    /\ IF username \in Keys(users)
       THEN /\ Ended("register_user", "False")
            /\ UNCHANGED <<users, store>>
       ELSE /\ users' = dict_set(users, username, User(username, password, <<>>, <<>>, <<>>))
            /\ store' = save_data(users')
            /\ Ended("register_user", "True")
    /\ UNCHANGED <<current_user, log, pc>>

\* login without the "username not in self.users" test: a session opens for a
\* name the registry does not hold
login_unknown_user(username, password) ==
    /\ pc = "menu"
    /\ ~is_logged_in
    /\ IF username \in Keys(users) /\ ~authenticate(dict_get(users, username), password)
       THEN /\ Ended("login", "False")
            /\ UNCHANGED current_user
       ELSE /\ current_user' = username
            /\ Ended("login", "True")
    /\ UNCHANGED <<users, store, log, pc>>

\* login without the call of authenticate: any password opens the session of
\* a registered name
login_any_password(username, password) ==
    /\ pc = "menu"
    /\ ~is_logged_in
    /\ IF username \notin Keys(users)
       THEN /\ Ended("login", "False")
            /\ UNCHANGED current_user
       ELSE /\ current_user' = username
            /\ Ended("login", "True")
    /\ UNCHANGED <<users, store, log, pc>>

\* FinanceTracker.login
login(username, password) ==
    /\ pc = "menu"
    /\ ~is_logged_in
    /\ IF username \notin Keys(users)
       THEN /\ Ended("login", "False")
            /\ UNCHANGED current_user
       ELSE LET user == dict_get(users, username)
            IN IF authenticate(user, password)
               THEN /\ current_user' = username
                    /\ Ended("login", "True")
               ELSE /\ Ended("login", "False")
                    /\ UNCHANGED current_user
    /\ UNCHANGED <<users, store, log, pc>>

\* FinanceTracker.logout, from the logged-in menu (choice 7)
logout ==
    /\ pc = "menu"
    /\ is_logged_in
    /\ IF current_user # None
       THEN /\ current_user' = None
            /\ Ended("logout", "True")
       ELSE /\ Ended("logout", "False")
            /\ UNCHANGED current_user
    /\ UNCHANGED <<users, store, log, pc>>

\* main(): choice 3 of the logged-out menu, choice 8 of the logged-in menu
exit ==
    /\ pc = "menu"
    /\ IF is_logged_in
       THEN store' = save_data(users)
       ELSE UNCHANGED store
    /\ pc' = "exited"
    /\ Ended("exit", "ok")
    /\ UNCHANGED <<users, current_user, log>>

----------------------------------------------------------------------------
(* main(): the handlers of the logged-in menu *)

\* "Enter category number or name": a number within the list picks by position
choose_category(category_choice, categories) ==
    IF int_ok(category_choice)
    THEN LET category_idx == int(category_choice) - 1
         IN IF 0 <= category_idx /\ category_idx < Len(categories)
            THEN categories[category_idx + 1]
            ELSE category_choice
    ELSE category_choice

\* handle_add_transaction, choices 1 and 2
handle_add_transaction(choice, date_in, amount, category_choice, add_to_categories, description) ==
    /\ pc = "menu"
    /\ is_logged_in
    /\ choice \in {"1", "2"}
    /\ Len(cur.transactions) < MaxTx
    /\ Len(log) < MaxLog
    /\ LET user == cur
           transaction_type == IF choice = "1" THEN "income" ELSE "expense"
           date == IF date_in = "" THEN Today ELSE date_in
           category0 == choose_category(category_choice, user.categories)
           missing == category0 \notin Range(user.categories)
           add == missing /\ lower(add_to_categories) = "y"
           user1 == IF add THEN [user EXCEPT !.categories = Append(@, category0)] ELSE user
           category == IF missing /\ ~add THEN "Other" ELSE category0
           r == add_transaction(user1, date, amount, category, transaction_type, description)
       IN CASE r.ret = "raise" ->
                 /\ users' = set_cur(user1)
                 /\ pc' = "crashed"
                 /\ Ended("handle_add_transaction", "raise")
                 /\ UNCHANGED <<store, log>>
            [] r.ret = "None" ->
                 /\ users' = set_cur(user1)
                 /\ Ended("handle_add_transaction", "error")
                 /\ UNCHANGED <<store, log, pc>>
            [] OTHER ->
                 /\ users' = set_cur(r.user)
                 /\ log' = log \o r.lines
                 /\ store' = save_data(users')
                 /\ Ended("handle_add_transaction", "ok")
                 /\ UNCHANGED pc
    /\ UNCHANGED current_user

\* handle_view_transactions, choice 2: delete by id
delete_transaction(transaction_id) ==
    /\ pc = "menu"
    /\ is_logged_in
    /\ cur.transactions # <<>>
    /\ LET user == cur
           i == IF int_ok(transaction_id)
                THEN FirstMatch([k \in 1..Len(user.transactions) |->
                         user.transactions[k].transaction_id = int(transaction_id)])
                ELSE 0
       IN IF i = 0
          THEN /\ Ended("delete_transaction", "error")
               /\ UNCHANGED <<users, store>>
          ELSE /\ users' = set_cur([user EXCEPT !.transactions = DelAt(@, i)])
               /\ store' = save_data(users')
               /\ EndedWith("delete_transaction", "ok", int(transaction_id))
    /\ UNCHANGED <<current_user, log, pc>>

\* handle_savings_goals, choice 2
new_savings_goal(name, target_amount) ==
    /\ pc = "menu"
    /\ is_logged_in
    /\ Len(cur.savings_goals) < MaxGoals
    /\ IF float_ok(target_amount) /\ ~float_le(float(target_amount), 0)
       THEN /\ users' = set_cur(add_savings_goal(cur, name, float(target_amount)))
            /\ store' = save_data(users')
            /\ Ended("new_savings_goal", "ok")
       ELSE /\ Ended("new_savings_goal", "error")
            /\ UNCHANGED <<users, store>>
    /\ UNCHANGED <<current_user, log, pc>>

\* handle_savings_goals, choice 3
add_funds(goal_id, amount) ==
    /\ pc = "menu"
    /\ is_logged_in
    /\ cur.savings_goals # <<>>
    /\ LET user == cur
           i == IF int_ok(goal_id)
                THEN FirstMatch([k \in 1..Len(user.savings_goals) |->
                         user.savings_goals[k].goal_id = int(goal_id)])
                ELSE 0
       IN IF i # 0 /\ float_ok(amount) /\ ~float_le(float(amount), 0)
          THEN /\ ~float_gt(float_add(user.savings_goals[i].current_amount, float(amount)),
                            MaxFunds)
               /\ users' = set_cur([user EXCEPT !.savings_goals[i] =
                                        SavingsGoal_add_funds(@, float(amount))])
               /\ store' = save_data(users')
               /\ Ended("add_funds", "ok")
          ELSE /\ Ended("add_funds", "error")
               /\ UNCHANGED <<users, store>>
    /\ UNCHANGED <<current_user, log, pc>>

\* new_budget without the search for an existing budget of the category: every
\* valid request appends a budget
new_budget_no_existing_check(category_choice, add_to_categories, limit_in, update, period_in) ==
    /\ pc = "menu"
    /\ is_logged_in
    /\ LET user == cur
           selected_category == choose_category(category_choice, user.categories)
           missing == selected_category \notin Range(user.categories)
           add == missing /\ lower(add_to_categories) = "y"
           user1 == IF add THEN [user EXCEPT !.categories = Append(@, selected_category)]
                    ELSE user
           period == IF lower(period_in) \notin {"monthly", "weekly", "yearly"}
                     THEN "monthly" ELSE lower(period_in)
       IN CASE missing /\ ~add ->
                 /\ Ended("new_budget", "declined")
                 /\ UNCHANGED <<users, store>>
            [] ~(missing /\ ~add) /\ (~float_ok(limit_in) \/ float_le(float(limit_in), 0)) ->
                 /\ users' = set_cur(user1)
                 /\ Ended("new_budget", "error")
                 /\ UNCHANGED store
            [] OTHER ->
                 /\ Len(user1.budgets) < MaxBudgets
                 /\ users' = set_cur(add_budget(user1, selected_category,
                                                float(limit_in), period))
                 /\ store' = save_data(users')
                 /\ Ended("new_budget", "ok")
    /\ UNCHANGED <<current_user, log, pc>>

\* handle_budgets, choice 2
new_budget(category_choice, add_to_categories, limit_in, update, period_in) ==
    /\ pc = "menu"
    /\ is_logged_in
    /\ LET user == cur
           selected_category == choose_category(category_choice, user.categories)
           missing == selected_category \notin Range(user.categories)
           add == missing /\ lower(add_to_categories) = "y"
           user1 == IF add THEN [user EXCEPT !.categories = Append(@, selected_category)]
                    ELSE user
           i == FirstMatch([k \in 1..Len(user1.budgets) |->
                              user1.budgets[k].category = selected_category])
           period == IF lower(period_in) \notin {"monthly", "weekly", "yearly"}
                     THEN "monthly" ELSE lower(period_in)
       IN CASE missing /\ ~add ->
                 /\ Ended("new_budget", "declined")
                 /\ UNCHANGED <<users, store>>
            [] ~(missing /\ ~add) /\ (~float_ok(limit_in) \/ float_le(float(limit_in), 0)) ->
                 /\ users' = set_cur(user1)
                 /\ Ended("new_budget", "error")
                 /\ UNCHANGED store
            [] OTHER ->
                 IF i # 0
                 THEN IF lower(update) = "y"
                      THEN /\ users' = set_cur([user1 EXCEPT !.budgets[i].limit = float(limit_in)])
                           /\ store' = save_data(users')
                           /\ Ended("new_budget", "updated")
                      ELSE /\ users' = set_cur(user1)
                           /\ Ended("new_budget", "kept")
                           /\ UNCHANGED store
                 ELSE /\ Len(user1.budgets) < MaxBudgets
                      /\ users' = set_cur(add_budget(user1, selected_category,
                                                     float(limit_in), period))
                      /\ store' = save_data(users')
                      /\ Ended("new_budget", "ok")
    /\ UNCHANGED <<current_user, log, pc>>

\* handle_budgets, choice 3: delete by id
delete_budget(budget_id) ==
    /\ pc = "menu"
    /\ is_logged_in
    /\ cur.budgets # <<>>
    /\ LET user == cur
           i == IF int_ok(budget_id)
                THEN FirstMatch([k \in 1..Len(user.budgets) |->
                         user.budgets[k].budget_id = int(budget_id)])
                ELSE 0
       IN IF i = 0
          THEN /\ Ended("delete_budget", "error")
               /\ UNCHANGED <<users, store>>
          ELSE /\ users' = set_cur([user EXCEPT !.budgets = DelAt(@, i)])
               /\ store' = save_data(users')
               /\ EndedWith("delete_budget", "ok", int(budget_id))
    /\ UNCHANGED <<current_user, log, pc>>

\* handle_categories, choice 1
add_category(category) ==
    /\ pc = "menu"
    /\ is_logged_in
    /\ IF category \in Range(cur.categories)
       THEN /\ Ended("add_category", "error")
            /\ UNCHANGED <<users, store>>
       ELSE /\ users' = set_cur([cur EXCEPT !.categories = Append(@, category)])
            /\ store' = save_data(users')
            /\ Ended("add_category", "ok")
    /\ UNCHANGED <<current_user, log, pc>>

\* handle_categories, choice 2
rename_category(old_category, new_category) ==
    /\ pc = "menu"
    /\ is_logged_in
    /\ LET user == cur
           index == FirstMatch([k \in 1..Len(user.categories) |-> user.categories[k] = old_category])
       IN IF old_category \notin Range(user.categories)
             \/ new_category \in Range(user.categories)
          THEN /\ Ended("rename_category", "error")
               /\ UNCHANGED <<users, store>>
          ELSE /\ users' = set_cur(
                     [user EXCEPT
                        !.transactions = [k \in 1..Len(@) |->
                            IF @[k].category = old_category
                            THEN [@[k] EXCEPT !.category = new_category] ELSE @[k]],
                        !.budgets = [k \in 1..Len(@) |->
                            IF @[k].category = old_category
                            THEN [@[k] EXCEPT !.category = new_category] ELSE @[k]],
                        !.categories[index] = new_category])
               /\ store' = save_data(users')
               /\ Ended("rename_category", "ok")
    /\ UNCHANGED <<current_user, log, pc>>

\* delete_category without the removal of the category's budgets
delete_category_keeps_budgets(category, confirm) ==
    /\ pc = "menu"
    /\ is_logged_in
    /\ LET user == cur
           index == FirstMatch([k \in 1..Len(user.categories) |-> user.categories[k] = category])
       IN CASE category \notin Range(user.categories) ->
                 /\ Ended("delete_category", "error")
                 /\ UNCHANGED <<users, store>>
            [] category \in Range(user.categories) /\ lower(confirm) # "y" ->
                 /\ Ended("delete_category", "declined")
                 /\ UNCHANGED <<users, store>>
            [] OTHER ->
                 /\ users' = set_cur(
                       [user EXCEPT
                          !.transactions = [k \in 1..Len(@) |->
                              IF @[k].category = category
                              THEN [@[k] EXCEPT !.category = "Other"] ELSE @[k]],
                          !.categories = DelAt(@, index)])
                 /\ store' = save_data(users')
                 /\ Ended("delete_category", "ok")
    /\ UNCHANGED <<current_user, log, pc>>

\* handle_categories, choice 3
delete_category(category, confirm) ==
    /\ pc = "menu"
    /\ is_logged_in
    /\ LET user == cur
           index == FirstMatch([k \in 1..Len(user.categories) |-> user.categories[k] = category])
       IN CASE category \notin Range(user.categories) ->
                 /\ Ended("delete_category", "error")
                 /\ UNCHANGED <<users, store>>
            [] category \in Range(user.categories) /\ lower(confirm) # "y" ->
                 /\ Ended("delete_category", "declined")
                 /\ UNCHANGED <<users, store>>
            [] OTHER ->
                 /\ users' = set_cur(
                       [user EXCEPT
                          !.transactions = [k \in 1..Len(@) |->
                              IF @[k].category = category
                              THEN [@[k] EXCEPT !.category = "Other"] ELSE @[k]],
                          !.budgets = SelectSeq(@, LAMBDA b : b.category # category),
                          !.categories = DelAt(@, index)])
                 /\ store' = save_data(users')
                 /\ Ended("delete_category", "ok")
    /\ UNCHANGED <<current_user, log, pc>>

----------------------------------------------------------------------------
(* What the file system supplies: snapshots a previous run left behind, and damaged ones *)

SavedUserA ==
    [User("a", "p", <<Transaction(1, "5", 4, "Bills", "expense", "")>>, <<>>,
          <<Budget(1, "Bills", 5, "monthly")>>) EXCEPT !.categories = Append(@, "Pets")]

RecordA == User_to_dict(SavedUserA)
RecordB == [username |-> "b", password |-> "q"]
RecordNoPassword == [username |-> "b"]
RecordBadTransaction ==
    [username |-> "a", password |-> "p",
     transactions |-> <<[id |-> 1, date |-> "5", category |-> "Bills", type |-> "expense"]>>]

Stores ==
    {StoreAbsent,
     StoreUnparsable,
     StoreJson(<<[key |-> "a", data |-> RecordA]>>),
     StoreJson(<<[key |-> "a", data |-> RecordA], [key |-> "b", data |-> RecordB]>>),
     StoreJson(<<[key |-> "a", data |-> RecordA], [key |-> "b", data |-> RecordNoPassword]>>),
     StoreJson(<<[key |-> "b", data |-> RecordNoPassword], [key |-> "a", data |-> RecordA]>>),
     StoreJson(<<[key |-> "b", data |-> RecordB], [key |-> "a", data |-> RecordBadTransaction]>>)}

----------------------------------------------------------------------------
(* The program *)

InitWith(stores) ==
    /\ users = <<>>
    /\ current_user = None
    /\ store \in stores
    /\ log = <<>>
    /\ pc = "init"
    /\ last = [op |-> "start", ret |-> "ok", id |-> 0]

\* The registry: every snapshot, two usernames, two passwords, and the
\* user-level handlers with one input each.
Init == InitWith(Stores)

Next ==
    \/ FinanceTracker_init
    \/ \E username \in {"a", "b"}, password \in {"p", "q"} : register_user(username, password)
    \/ \E username \in {"a", "b"}, password \in {"p", "q"} : login(username, password)
    \/ logout
    \/ exit
    \/ handle_add_transaction("2", "5", "4", "2", "n", "")
    \/ add_category("Pets")

Spec == Init /\ [][Next]_vars

\* One user's transactions: every input of the add-transaction flow.
InitTx == InitWith({StoreAbsent})

NextTx ==
    \/ FinanceTracker_init
    \/ register_user("a", "p")
    \/ login("a", "p")
    \/ logout
    \/ exit
    \/ \E date \in {"", "5"}, amount \in {"x", "-4", "4"},
          category_choice \in {"2", "Pets"}, add_to_categories \in {"Y", "n"} :
           handle_add_transaction("2", date, amount, category_choice, add_to_categories, "")
    \/ \E transaction_id \in {"x", "1", "2", "3"} : delete_transaction(transaction_id)

SpecTx == InitTx /\ [][NextTx]_vars

\* One user's budgets and the transactions they are compared with.
InitBudget == InitWith({StoreAbsent})

NextBudget ==
    \/ FinanceTracker_init
    \/ register_user("a", "p")
    \/ login("a", "p")
    \/ \E choice \in {"1", "2"}, category_choice \in {"2", "Pets"} :
           handle_add_transaction(choice, "5", "4", category_choice, "Y", "")
    \/ handle_add_transaction("2", "5", "-4", "2", "Y", "")
    \/ \E category_choice \in {"2", "Pets"}, add_to_categories \in {"Y", "n"},
          limit \in {"0", "4", "5"}, update \in {"Y", "n"} :
           new_budget(category_choice, add_to_categories, limit, update, "Weekly")
    \/ \E budget_id \in {"1", "2"} : delete_budget(budget_id)

SpecBudget == InitBudget /\ [][NextBudget]_vars

\* One user's three collections: adds and deletes, one input each.
InitIds == InitWith({StoreAbsent})

NextIds ==
    \/ FinanceTracker_init
    \/ register_user("a", "p")
    \/ login("a", "p")
    \/ handle_add_transaction("2", "5", "4", "2", "n", "")
    \/ \E transaction_id \in {"1", "2", "3"} : delete_transaction(transaction_id)
    \/ \E category_choice \in {"1", "2"} : new_budget(category_choice, "n", "4", "n", "")
    \/ \E budget_id \in {"1", "2", "3"} : delete_budget(budget_id)
    \/ new_savings_goal("car", "5")
    \/ delete_category("Bills", "Y")

SpecIds == InitIds /\ [][NextIds]_vars

\* One user's categories: rename and delete with the transactions, budgets
\* and goals they cascade to, and the add-transaction flow on the lists they leave.
InitCat == InitWith({StoreAbsent})

NextCat ==
    \/ FinanceTracker_init
    \/ register_user("a", "p")
    \/ login("a", "p")
    \/ \E category_choice \in {"Bills", "Other"} :
           handle_add_transaction("2", "5", "4", category_choice, "n", "")
    \/ handle_add_transaction("2", "5", "4", "Bills", "Y", "")
    \/ \E category_choice \in {"Bills", "Other"} : new_budget(category_choice, "n", "4", "n", "")
    \/ new_savings_goal("car", "5")
    \/ \E new_category \in {"Pets", "Other"} : rename_category("Bills", new_category)
    \/ \E category \in {"Bills", "Other"}, confirm \in {"Y", "n"} :
           delete_category(category, confirm)

SpecCat == InitCat /\ [][NextCat]_vars

\* One user's whole record: each collection filled, the category list
\* emptied name by name.
InitRound == InitWith({StoreAbsent})

NextRound ==
    \/ FinanceTracker_init
    \/ register_user("a", "p")
    \/ login("a", "p")
    \/ handle_add_transaction("1", "5", "5", "1", "n", "lunch")
    \/ new_budget("1", "n", "4", "n", "Weekly")
    \/ new_savings_goal("car", "5")
    \/ add_funds("1", "2")
    \/ \E category \in Range(DefaultCategories) : delete_category(category, "Y")

SpecRound == InitRound /\ [][NextRound]_vars

\* One user's income and expenses under deletes, renames and category deletes.
InitBalance == InitWith({StoreAbsent})

NextBalance ==
    \/ FinanceTracker_init
    \/ register_user("a", "p")
    \/ login("a", "p")
    \/ handle_add_transaction("1", "5", "5", "Bills", "n", "")
    \/ \E amount \in {"4", "-4"} : handle_add_transaction("2", "5", amount, "Bills", "n", "")
    \/ \E transaction_id \in {"1", "2"} : delete_transaction(transaction_id)
    \/ rename_category("Bills", "Pets")
    \/ \E category \in {"Bills", "Pets"} : delete_category(category, "Y")

SpecBalance == InitBalance /\ [][NextBalance]_vars

\* One user's savings goals: every kind of answer to the add-funds prompts,
\* beside handlers that work on the other collections.
InitGoals == InitWith({StoreAbsent})

NextGoals ==
    \/ FinanceTracker_init
    \/ register_user("a", "p")
    \/ login("a", "p")
    \/ new_savings_goal("car", "5")
    \/ \E goal_id \in {"x", "1", "2", "3"}, amount \in {"x", "0", "-4", "1", "2", "nan"} :
           add_funds(goal_id, amount)
    \/ handle_add_transaction("2", "5", "4", "Bills", "n", "")
    \/ delete_category("Bills", "Y")

SpecGoals == InitGoals /\ [][NextGoals]_vars

\* One user's budgets under the category handlers.
InitBudgetCat == InitWith({StoreAbsent})

NextBudgetCat ==
    \/ FinanceTracker_init
    \/ register_user("a", "p")
    \/ login("a", "p")
    \/ \E category_choice \in {"Bills", "Pets"}, add_to_categories \in {"Y", "n"},
          limit \in {"4", "5"}, update \in {"Y", "n"} :
           new_budget(category_choice, add_to_categories, limit, update, "")
    \/ \E budget_id \in {"1", "2"} : delete_budget(budget_id)
    \/ \E category \in {"Bills", "Pets"} : add_category(category)
    \/ \E old_category, new_category \in {"Bills", "Pets", "Other"} :
           rename_category(old_category, new_category)
    \/ \E category \in {"Bills", "Pets"} : delete_category(category, "Y")

SpecBudgetCat == InitBudgetCat /\ [][NextBudgetCat]_vars

----------------------------------------------------------------------------
(* Claims about add_transaction and the add-transaction flow (SpecTx) *)

AllTransactions ==
    UNION {Range(users[i].user.transactions) : i \in 1..Len(users)}

\* the inputs of a call of add_transaction other than the amount
CallDates == {"", "5", Today}
CallCategories == {"Bills", "Pets", "Other"}
CallTypes == {"income", "expense"}
CallDescriptions == {"", "lunch"}

\* C1: every transaction a user holds has amount > 0, and a call of
\* add_transaction whose amount is non-numeric or <= 0 returns no transaction
\* and leaves the transactions and the audit log as they were, whatever the
\* date, category, type and description are.
C1_AmountValidated ==
    /\ \A t \in AllTransactions : t.amount > 0
    /\ (pc = "menu" /\ is_logged_in) =>
         \A date \in CallDates, amount \in {"x", "-4", "0"}, category \in CallCategories,
            transaction_type \in CallTypes, description \in CallDescriptions :
             LET r == add_transaction(cur, date, amount, category, transaction_type,
                                      description)
             IN /\ r.ret # "ok"
                /\ r.user.transactions = cur.transactions
                /\ r.lines = <<>>

\* C2: a call of add_transaction with a positive amount succeeds for every
\* date, the zero-padded YYYY-MM-DD the flow passes included: one transaction
\* with id = count + 1 is appended and returned, the earlier ones are
\* unchanged, and one line is appended to the audit log.
C2_PositiveAmountAdds ==
    (pc = "menu" /\ is_logged_in) =>
        \A date \in CallDates, amount \in {"4", "5"}, category \in CallCategories,
           transaction_type \in CallTypes, description \in CallDescriptions :
            LET r == add_transaction(cur, IF date = "" THEN Today ELSE date, amount,
                                     category, transaction_type, description)
                n == Len(cur.transactions)
            IN /\ r.ret = "ok"
               /\ Len(r.user.transactions) = n + 1
               /\ SubSeq(r.user.transactions, 1, n) = cur.transactions
               /\ r.user.transactions[n + 1].transaction_id = n + 1
               /\ Len(r.lines) = 1

\* C3: within one user no two transactions share an id and no two budgets
\* share an id.
C3_IdsUnique ==
    \A i \in 1..Len(users) :
        LET u == users[i].user
        IN /\ \A k, m \in 1..Len(u.transactions) :
                 k # m => u.transactions[k].transaction_id # u.transactions[m].transaction_id
           /\ \A k, m \in 1..Len(u.budgets) :
                 k # m => u.budgets[k].budget_id # u.budgets[m].budget_id

\* C5: a handler that changed the in-memory users and ran to completion
\* leaves the snapshot equal to the serialisation of the users.
C5_SnapshotFollowsMemory ==
    [][(pc = "menu" /\ pc' # "crashed" /\ users' # users) => store' = save_data(users')]_vars

\* C6: a handler that ended in a reported error left the users and the
\* session as they were before it started.
C6_ErrorLeavesMemory ==
    [][(pc = "menu" /\ (last'.ret = "error" \/ (last'.op = "register_user" /\ last'.ret = "False")))
          => (users' = users /\ current_user' = current_user)]_vars

----------------------------------------------------------------------------
(* Claims about the registry (Spec) *)

\* a snapshot that is unparsable or holds a user record without a required field
Malformed(st) ==
    \/ st.state = "unparsable"
    \/ /\ st.state = "json"
       /\ \E i \in 1..Len(st.doc) : ~User_from_dict_ok(st.doc[i].data)

\* C7: load_data never raises; with no snapshot the registry starts with no
\* users, and with a malformed snapshot it reports a load error and holds no
\* users afterwards, even when other records of the document are well-formed.
C7_MalformedLoadsEmpty ==
    last.op = "load_data" =>
        /\ pc = "menu"
        /\ store.state = "absent" => (users = <<>> /\ last.ret = "ok")
        /\ Malformed(store) => (users = <<>> /\ last.ret = "error")

\* the User register_user creates
FreshUser(username, password) ==
    [username |-> username, password |-> password, transactions |-> <<>>,
     savings_goals |-> <<>>, budgets |-> <<>>,
     categories |-> <<"Groceries", "Bills", "Entertainment", "Transportation",
                      "Housing", "Other">>]

\* C9: register_user returns false and changes nothing when the username is a
\* key of users; otherwise it adds exactly one User with that password, no
\* transactions, budgets or goals and the six default categories, writes the
\* snapshot and returns true.
C9_RegisterUser ==
    [][\A username \in {"a", "b"}, password \in {"p", "q"} :
          register_user(username, password) =>
              IF username \in Keys(users)
              THEN /\ last'.ret = "False"
                   /\ UNCHANGED <<users, current_user, store>>
              ELSE /\ last'.ret = "True"
                   /\ users' = Append(users, [key |-> username,
                                              user |-> FreshUser(username, password)])
                   /\ store'.state = "json"
                   /\ Len(store'.doc) = Len(users')
                   /\ \A i \in 1..Len(users') :
                          /\ store'.doc[i].key = users'[i].key
                          /\ store'.doc[i].data = User_to_dict(users'[i].user)
                   /\ UNCHANGED current_user]_vars

\* a registration under a username the registry holds was just refused
C9_Witness ==
    /\ last.op = "register_user"
    /\ last.ret = "False"
    /\ Len(users) = 1

\* C10: current_user is absent or is the User stored in users under its own
\* username.
C10_SessionInRegistry ==
    current_user # None =>
        /\ current_user \in Keys(users)
        /\ dict_get(users, current_user).username = current_user

\* a session is open while the registry holds two users, after work in it
C10_Witness ==
    /\ current_user # None
    /\ Len(users) = 2
    /\ last.op = "add_category"

\* C11: login returns true and makes users[username] the current user exactly
\* when username is a key of users and the password is that user's stored
\* password; otherwise it returns false and leaves the session as it was; it
\* never changes users.  A session opens only by a successful login and closes
\* only by logout.
C11_LoginLogout ==
    [][/\ \A username \in {"a", "b"}, password \in {"p", "q"} :
              login(username, password) =>
                  /\ IF /\ username \in Keys(users)
                        /\ dict_get(users, username).password = password
                     THEN /\ last'.ret = "True"
                          /\ current_user' = username
                          /\ dict_get(users', current_user') = dict_get(users, username)
                     ELSE /\ last'.ret = "False"
                          /\ current_user' = current_user
                  /\ users' = users
       /\ (current_user = None /\ current_user' # None) =>
              (last'.op = "login" /\ last'.ret = "True")
       /\ (current_user # None /\ current_user' = None) =>
              (last'.op = "logout" /\ last'.ret = "True")]_vars

\* a login under a registered name was just refused for its password, after an
\* earlier session of that registry was closed by logout
C11_Witness ==
    /\ last.op = "login"
    /\ last.ret = "False"
    /\ current_user = None
    /\ Len(users) = 2
    /\ \E i \in 1..Len(users) : users[i].user.categories # DefaultCategories
                                  /\ users[i].key = "b"

----------------------------------------------------------------------------
(* Claims about budgets (SpecBudget) *)

\* the sum of the expense-type amounts of one category, 0 when there is none
Spent(u, category) ==
    SumSeq(Amounts(SelectSeq(u.transactions,
                             LAMBDA t : t.type = "expense" /\ t.category = category)))

ExpectedKind(u, b) ==
    IF Spent(u, b.category) >= b.limit THEN "exceeded"
    ELSE IF 5 * Spent(u, b.category) >= 4 * b.limit THEN "warning"
    ELSE "none"

RECURSIVE ExpectedMessages(_, _)
ExpectedMessages(u, bs) ==
    IF bs = <<>> THEN <<>>
    ELSE (IF ExpectedKind(u, Head(bs)) = "none" THEN <<>>
          ELSE <<[kind |-> ExpectedKind(u, Head(bs)), category |-> Head(bs).category,
                  limit |-> Head(bs).limit, spending |-> Spent(u, Head(bs).category)]>>)
         \o ExpectedMessages(u, Tail(bs))

\* C8: check_budget_notifications returns, in the order of the budgets, at
\* most one message per budget: "exceeded" when spent >= limit, else
\* "warning" when spent >= 0.8 * limit, else none, where spent is the sum of
\* the expense amounts of the budget's category (0 when there is none).
C8_BudgetNotifications ==
    \A i \in 1..Len(users) :
        check_budget_notifications(users[i].user)
            = ExpectedMessages(users[i].user, users[i].user.budgets)

\* two budgets: the first has no expense in its category and gets no message,
\* the second is at 80% of its limit and gets the only message, a warning
C8_Witness ==
    /\ is_logged_in
    /\ Len(cur.budgets) = 2
    /\ cur.budgets[1].category \notin DOMAIN get_expenses_by_category(cur)
    /\ Len(check_budget_notifications(cur)) = 1
    /\ check_budget_notifications(cur)[1].kind = "warning"
    /\ check_budget_notifications(cur)[1].category = cur.budgets[2].category

----------------------------------------------------------------------------
(* Claims about id assignment (SpecIds) *)

TransactionIds(u) == [k \in 1..Len(u.transactions) |-> u.transactions[k].transaction_id]
BudgetIds(u) == [k \in 1..Len(u.budgets) |-> u.budgets[k].budget_id]
GoalIds(u) == [k \in 1..Len(u.savings_goals) |-> u.savings_goals[k].goal_id]

\* the ids b of a collection after a step that found the ids a: nothing added
\* or removed, or one item added at the end with id = count + 1, or items
\* removed and the rest left with the ids they had
IdsStep(a, b) ==
    \/ b = a
    \/ b = Append(a, Len(a) + 1)
    \/ /\ Len(b) < Len(a)
       /\ \E removed \in SUBSET (1..Len(a)) :
              /\ Cardinality(removed) = Len(a) - Len(b)
              /\ b = [k \in 1..Len(b) |->
                         a[CHOOSE j \in (1..Len(a)) \ removed :
                               Cardinality((1..j) \ removed) = k]]

\* the current user before and after a step of the logged-in menu
Before == cur
After == dict_get(users', current_user)

InSession == pc = "menu" /\ is_logged_in /\ current_user' = current_user

CountPlusOne ==
    InSession =>
        /\ IdsStep(TransactionIds(Before), TransactionIds(After))
        /\ IdsStep(BudgetIds(Before), BudgetIds(After))
        /\ IdsStep(GoalIds(Before), GoalIds(After))

\* the step adds a transaction right after a delete-by-id removed the highest id
AddsAfterDeletingHighestTransaction ==
    /\ InSession
    /\ last.op = "delete_transaction" /\ last.ret = "ok"
    /\ \A k \in 1..Len(Before.transactions) : TransactionIds(Before)[k] <= last.id
    /\ Len(After.transactions) = Len(Before.transactions) + 1

AddsAfterDeletingHighestBudget ==
    /\ InSession
    /\ last.op = "delete_budget" /\ last.ret = "ok"
    /\ \A k \in 1..Len(Before.budgets) : BudgetIds(Before)[k] <= last.id
    /\ Len(After.budgets) = Len(Before.budgets) + 1

NewTransactionId == After.transactions[Len(After.transactions)].transaction_id
NewBudgetId == After.budgets[Len(After.budgets)].budget_id

\* C4 as stated: every add assigns id = count + 1, deletion never renumbers,
\* and an add right after deleting the item with the highest id receives
\* that id again.
C4_HighestIdReassigned ==
    [][/\ CountPlusOne
       /\ AddsAfterDeletingHighestTransaction => NewTransactionId = last.id
       /\ AddsAfterDeletingHighestBudget => NewBudgetId = last.id]_vars

\* C4 as amended: every add assigns id = count + 1, deletion never renumbers,
\* and an add right after deleting the item with the highest id receives
\* that id again exactly when that id was the number of items before the
\* deletion.
C4_CountPlusOne ==
    [][/\ CountPlusOne
       /\ AddsAfterDeletingHighestTransaction =>
              (NewTransactionId = last.id <=> last.id = Len(Before.transactions) + 1)
       /\ AddsAfterDeletingHighestBudget =>
              (NewBudgetId = last.id <=> last.id = Len(Before.budgets) + 1)]_vars

\* three transactions were added and one deleted, and the latest add gave id 2
\* to the second of the two transactions held
C4_Witness ==
    /\ is_logged_in
    /\ last.op = "handle_add_transaction" /\ last.ret = "ok"
    /\ Len(log) = 3
    /\ TransactionIds(cur) = <<1, 2>>

----------------------------------------------------------------------------
(* Claims about categories (SpecCat) *)

\* C13: a confirmed delete of a category of the list sets every transaction
\* of that category to 'Other', drops every budget of that category, removes
\* the category from the list, and leaves the rest as it was: the other
\* transactions, the remaining budgets with their ids and order, the other
\* categories in their order, the savings goals, the credentials.
C13_DeleteCategoryCascade ==
    [][\A category \in {"Bills", "Other"} :
          (delete_category(category, "Y") /\ category \in Range(cur.categories)) =>
              LET u == Before
                  v == After
              IN /\ Len(v.transactions) = Len(u.transactions)
                 /\ \A k \in 1..Len(u.transactions) :
                        IF u.transactions[k].category = category
                        THEN /\ v.transactions[k].category = "Other"
                             /\ [v.transactions[k] EXCEPT !.category = category]
                                    = u.transactions[k]
                        ELSE v.transactions[k] = u.transactions[k]
                 /\ \A k \in 1..Len(v.budgets) : v.budgets[k].category # category
                 /\ v.budgets = SelectSeq(u.budgets, LAMBDA b : b.category # category)
                 /\ category \notin Range(v.categories)
                 /\ v.categories = SelectSeq(u.categories, LAMBDA c : c # category)
                 /\ v.savings_goals = u.savings_goals
                 /\ v.username = u.username /\ v.password = u.password
                 /\ Len(users') = Len(users)]_vars

\* a delete just moved a transaction to 'Other' beside one that was there, and
\* removed the first of two budgets: the second keeps id 2, the goal stays
C13_Witness ==
    /\ last.op = "delete_category" /\ last.ret = "ok"
    /\ is_logged_in
    /\ "Bills" \notin Range(cur.categories)
    /\ Len(cur.transactions) = 2
    /\ \A k \in 1..2 : cur.transactions[k].category = "Other"
    /\ Len(cur.budgets) = 1
    /\ cur.budgets[1].budget_id = 2
    /\ Len(cur.savings_goals) = 1

\* C14: whatever renames and deletes of categories came before, a transaction
\* the add-transaction flow creates has a category of the user's category
\* list as the list is when the flow ends, the fallback to 'Other' after a
\* declined offer included.
C14_CategoryInListAtCreation ==
    [][(InSession /\ last'.op = "handle_add_transaction" /\ last'.ret = "ok") =>
           After.transactions[Len(After.transactions)].category \in Range(After.categories)]_vars

----------------------------------------------------------------------------
(* Claims about serialisation (SpecRound) *)

\* C12: for every User the operations produce, from_dict(to_dict(user)) does
\* not raise and equals the user field for field: username, password, and
\* the transactions, savings goals, budgets and categories with the same
\* ids, values and order, an empty category list included.
C12_RoundTrip ==
    \A i \in 1..Len(users) :
        LET user == users[i].user
        IN /\ User_from_dict_ok(User_to_dict(user))
           /\ User_from_dict(User_to_dict(user)) = user

\* the user deleted every category and holds two transactions and a goal
\* with funds
C12_Witness ==
    /\ is_logged_in
    /\ cur.categories = <<>>
    /\ Len(cur.transactions) = 2
    /\ Len(cur.savings_goals) = 1
    /\ cur.savings_goals[1].current_amount = 4

----------------------------------------------------------------------------
(* Claims about the balance (SpecBalance) *)

\* the sum of the amounts of the first k transactions that have the given type
RECURSIVE TotalOfType(_, _, _)
TotalOfType(ts, type, k) ==
    IF k = 0 THEN 0
    ELSE TotalOfType(ts, type, k - 1) + (IF ts[k].type = type THEN ts[k].amount ELSE 0)

\* C15: after every sequence of add-transaction, delete-transaction,
\* rename-category and delete-category, get_balance equals get_total_income
\* minus get_total_expenses, and these are the sums of the amounts of the
\* income-type and of the expense-type transactions the user holds.
C15_Balance ==
    \A i \in 1..Len(users) :
        LET user == users[i].user
            n == Len(user.transactions)
        IN /\ get_balance(user) = get_total_income(user) - get_total_expenses(user)
           /\ get_total_income(user) = TotalOfType(user.transactions, "income", n)
           /\ get_total_expenses(user) = TotalOfType(user.transactions, "expense", n)

\* a category delete just moved an income of 5 and an expense of 4 to 'Other':
\* the balance is 1
C15_Witness ==
    /\ is_logged_in
    /\ last.op = "delete_category" /\ last.ret = "ok"
    /\ Len(cur.transactions) = 2
    /\ \A k \in 1..2 : cur.transactions[k].category = "Other"
    /\ get_total_income(cur) = 5
    /\ get_total_expenses(cur) = 4
    /\ get_balance(cur) = 1

----------------------------------------------------------------------------
(* Claims about savings goals (SpecGoals) *)

\* the answer is a number greater than 0
PositiveNumber(amount) ==
    float_ok(amount) /\ float(amount) # NaN /\ float(amount) > 0

\* the goals with the first goal of the given id raised by the amount
FundsAdded(goals, goal_id, amount) ==
    LET i == FirstMatch([k \in 1..Len(goals) |-> goals[k].goal_id = goal_id])
    IN [goals EXCEPT ![i].current_amount = @ + amount]

\* C16: the current_amount of a goal changes only in an add-funds request
\* with an amount > 0, which raises that goal by exactly the amount; a request
\* with a non-positive or non-numeric amount or an unknown goal id leaves
\* every goal as it was; so no current_amount ever decreases or is not >= 0.
C16_AddFunds ==
    [][InSession =>
          /\ \A goal_id \in {"x", "1", "2", "3"}, amount \in {"x", "0", "-4", "1", "2", "nan"} :
                 add_funds(goal_id, amount) =>
                     IF /\ PositiveNumber(amount)
                        /\ int_ok(goal_id)
                        /\ \E k \in 1..Len(Before.savings_goals) :
                               Before.savings_goals[k].goal_id = int(goal_id)
                     THEN After.savings_goals
                              = FundsAdded(Before.savings_goals, int(goal_id), float(amount))
                     ELSE After.savings_goals = Before.savings_goals
          /\ last'.op # "add_funds" =>
                 \A k \in 1..Len(Before.savings_goals) :
                     After.savings_goals[k] = Before.savings_goals[k]
          /\ \A k \in 1..Len(Before.savings_goals) :
                 /\ float_ge(After.savings_goals[k].current_amount,
                             Before.savings_goals[k].current_amount)
                 /\ float_ge(After.savings_goals[k].current_amount, 0)]_vars

----------------------------------------------------------------------------
(* Claims about budgets and categories (SpecBudgetCat) *)

\* C17: under add budget, update budget, delete budget and add, rename and
\* delete category, starting from no budgets and the default categories, no
\* two budgets of a user have the same category and no category is listed
\* twice.
C17_OneBudgetPerCategory ==
    \A i \in 1..Len(users) :
        LET user == users[i].user
        IN /\ \A k, m \in 1..Len(user.budgets) :
                 k # m => user.budgets[k].category # user.budgets[m].category
           /\ \A k, m \in 1..Len(user.categories) :
                 k # m => user.categories[k] # user.categories[m]

\* the flow just updated the budget of 'Pets' instead of adding a second one,
\* in a list that lost 'Bills', beside a budget that a rename moved to 'Other'
C17_Witness ==
    /\ is_logged_in
    /\ last.op = "new_budget" /\ last.ret = "updated"
    /\ Len(cur.budgets) = 2
    /\ "Bills" \notin Range(cur.categories)
    /\ cur.budgets[1].category = "Pets"
    /\ cur.budgets[1].limit = 5
    /\ cur.budgets[2].category = "Other"

====
